---- MODULE Spec2Model ----
(***************************************************************************)
(* Hash anchoring, integrity verification, share keeping and secret        *)
(* splitting of the NTA backend: BlockchainTransaction documents           *)
(* (models/BlockchainTransaction.js), the BlockchainService that stores    *)
(* and verifies them (services/BlockchainService.js), the QuestionService  *)
(* that anchors and verifies questions (services/QuestionService.js,       *)
(* models/Question.js), the shamirShares of an ExamPaper document (the     *)
(* ExamPaper model) and the EncryptionService (utils/encryption.js).       *)
(*                                                                         *)
(* A collection is the sequence of its documents in insertion order, which *)
(* is the order of submittedAt.  A Date path is UNSET, NULL or "set".      *)
(* Identifiers that the code draws from the clock and Math.random() are    *)
(* fresh numbers.  A handler runs as one step, except where requests       *)
(* interleave (SpecSubmit).                                                *)
(*                                                                         *)
(* Specifications:                                                         *)
(*   Spec          the anchor service as the program wires it: documents   *)
(*                 are written by storeData only (no caller of the         *)
(*                 instance methods exists in the repository)              *)
(*   SpecTx        the instance methods of a stored document, called in    *)
(*                 any order, with verifyDataIntegrity                     *)
(*   FairSpecTx    SpecTx with calls that keep arriving                    *)
(*   SpecRetry     incrementRetry alone on freshly submitted documents     *)
(*   SpecQuestion  uploadQuestion, writes to stored questions and          *)
(*                 verifyQuestionIntegrity                                 *)
(*   SpecPaper     one ExamPaper document and its share methods            *)
(*   SpecSubmit    two requests that call markShareAsUsed at the same time *)
(*   SpecShamir    splitSecret and reconstructSecret on its shares         *)
(*   SpecMixed     two splits and reconstructSecret on shares of both      *)
(*   SpecCipher    encrypt, and decrypt of its payload as it is or altered *)
(***************************************************************************)
EXTENDS Integers, Sequences, FiniteSets, TLC

\* ------------------------------------------------------------------ bounds
\* documents in the collection, services specification
MaxTx == 2
\* documents in the collection, document-lifecycle specification
MaxLifecycleTx == 1
\* cap on retryCount (the code's counter is unbounded)
MaxRetryCount == 4
\* largest maxRetries drawn for the documents of the retry specification
MaxMaxRetries == 3
\* documents of the retry specification
RetryDocs == 2
\* questions in the collection, question specification
MaxQuestions == 1
\* shares pushed to shamirShares (the code sets no limit), paper specification
MaxShares == 3
\* shares distributed before the submissions, submission specification
SubmitShares == 2
\* submissions that one request makes, submission specification
MaxSubmissions == 1
\* shares in a list given to reconstructSecret, splitting specification
MaxListLen == 3
\* secrets that are split, mixing specification
MixedSplits == 2

\* ------------------------------------------------------- program constants
\* BlockchainTransaction.js:88, maxRetries default
DefaultMaxRetries == 3

\* JavaScript null and undefined (a path that was never set)
NULL == "null"
UNSET == "unset"

EntityIds == {"e1", "e2"}
Hashes == {"hA", "hB"}
ErrorMessages == {"ledger error"}

VARIABLES
    programId,  \* BlockchainService.programId: NULL until initialize() succeeded
    txs,        \* the BlockchainTransaction collection, in insertion order
    questions,  \* the Question collection, in insertion order
    ret,        \* the call made last and what it returned or threw
    paper,      \* the stored ExamPaper document
    copies,     \* per request: the ExamPaper document it loaded and how far it got
    pret,       \* the ExamPaper call made last and what it returned or threw
    service,    \* the EncryptionService singleton: threshold and totalParts
    shares,     \* per splitSecret call that returned: the secret and the shares
    eret,       \* the EncryptionService call made last and what it returned or threw
    encryptionKey, \* EncryptionService.encryptionKey, a hex string
    sealed,     \* the encrypt call made last: its data, its key and its payload
    cret        \* the encrypt or decrypt call made last and what it returned or threw

vars == <<programId, txs, questions, ret, paper, copies, pret, service, shares, eret,
          encryptionKey, sealed, cret>>

\* the variables of hash anchoring, and those of share keeping and secret splitting
anchorVars == <<programId, txs, questions, ret>>
shareVars == <<paper, copies, pret, service, shares, eret>>
cipherVars == <<encryptionKey, sealed, cret>>

Bool(b) == IF b THEN "true" ELSE "false"

\* The outcome of a call: the operation, its arguments, whether it threw, the value
\* it returned, the transactionId it returned (0: none), and whether the database
\* answered its lookup.
Ret(op, idx, type, etype, eid, hash, threw, value, txId) ==
    [op |-> op, idx |-> idx, type |-> type, entityType |-> etype, entityId |-> eid,
     hash |-> hash, threw |-> threw, value |-> value, transactionId |-> txId,
     dbOk |-> TRUE]

NoRet == Ret("none", 0, "", "", "", "", FALSE, "none", 0)

\* ------------------------------------------- models/BlockchainTransaction.js
\* new BlockchainTransaction({...}): the schema defaults of the paths that are not given
NewTransaction(type, etype, eid, hash) ==
    [transactionId |-> 0, solanaTxId |-> 0, type |-> type, entityType |-> etype,
     entityId |-> eid, dataHash |-> hash, status |-> "pending",
     confirmationStatus |-> "processed", errorMessage |-> UNSET, retryCount |-> 0,
     maxRetries |-> DefaultMaxRetries, confirmedAt |-> UNSET, failedAt |-> UNSET]

\* pre('save'): a document without transactionId gets a fresh one
preSave(doc, coll) ==
    IF doc.transactionId = 0 THEN [doc EXCEPT !.transactionId = Len(coll) + 1] ELSE doc

markConfirmed(doc) ==
    [doc EXCEPT !.status = "confirmed", !.confirmedAt = "set",
                !.confirmationStatus = "confirmed"]

markFinalized(doc) == [doc EXCEPT !.confirmationStatus = "finalized"]

markFailed(doc, errorMessage) ==
    [doc EXCEPT !.status = "failed", !.errorMessage = errorMessage, !.failedAt = "set"]

\* incrementRetry with the limit compared by > instead of >=
incrementRetry_late(doc) ==
    LET d == [doc EXCEPT !.retryCount = doc.retryCount + 1]
    IN  IF d.retryCount > d.maxRetries
        THEN [d EXCEPT !.status = "failed", !.errorMessage = "Max retries exceeded",
                       !.failedAt = "set"]
        ELSE d

incrementRetry(doc) ==
    LET d == [doc EXCEPT !.retryCount = doc.retryCount + 1]
    IN  IF d.retryCount >= d.maxRetries
        THEN [d EXCEPT !.status = "failed", !.errorMessage = "Max retries exceeded",
                       !.failedAt = "set"]
        ELSE d

resetForRetry(doc) ==
    [doc EXCEPT !.status = "pending", !.errorMessage = NULL, !.failedAt = NULL]

\* statics.findPending: the documents a retry worker would pick up
findPending(coll) == {i \in 1..Len(coll) : coll[i].status = "pending"}

\* this.save() of a document loaded from the collection
saveAt(coll, i, doc) == [coll EXCEPT ![i] = doc]

\* a save that overwrites the stored document of the same entity, if there is one
saveNew_upsert(coll, doc) ==
    LET same == {i \in 1..Len(coll) : coll[i].entityType = doc.entityType
                                       /\ coll[i].entityId = doc.entityId}
    IN  IF same = {} THEN Append(coll, preSave(doc, coll))
        ELSE [coll EXCEPT ![CHOOSE i \in same : TRUE] = preSave(doc, coll)]

\* this.save() of a new document: an insert
saveNew(coll, doc) == Append(coll, preSave(doc, coll))

\* ---------------------------------------------- services/BlockchainService.js
\* initialize(): solanaConfig.initialize() throws when the environment is incomplete
\* or the RPC node does not answer, and programId then stays null
Initialize ==
    \E ok \in BOOLEAN :
        /\ programId' = IF ok THEN "set" ELSE programId
        /\ ret' = Ret("initialize", 0, "", "", "", "", ~ok, "none", 0)
        /\ UNCHANGED <<txs, questions>>
        /\ UNCHANGED <<shareVars, cipherVars>>

\* simulateSolanaTransaction: a fresh identifier (timestamp and random suffix)
simulateSolanaTransaction(coll) == Len(coll) + 1

\* storeData up to transaction.save(): the document as it is first saved
storeDataDoc(coll, type, etype, eid, hash) ==
    LET transaction == NewTransaction(type, etype, eid, hash)
    IN  [transaction EXCEPT !.solanaTxId = simulateSolanaTransaction(coll),
                            !.status = "confirmed", !.confirmedAt = "set",
                            !.confirmationStatus = "confirmed"]

\* storeData throws when this.programId is null (programId.toString()) or the save
\* is rejected (validation, unique index, connection); nothing is persisted then
storeDataThrows(pid, saveOk) == pid = NULL \/ ~saveOk

\* the collection after storeData
storeDataSave(coll, pid, saveOk, doc) ==
    IF storeDataThrows(pid, saveOk) THEN coll ELSE saveNew(coll, doc)

storeData(type, etype, eid, hash, saveOk) ==
    LET doc == storeDataDoc(txs, type, etype, eid, hash)
        threw == storeDataThrows(programId, saveOk)
    IN  /\ txs' = storeDataSave(txs, programId, saveOk, doc)
        /\ ret' = IF threw
                  THEN Ret("storeData", 0, type, etype, eid, hash, TRUE, "none", 0)
                  ELSE Ret("storeData", Len(txs'), type, etype, eid, hash, FALSE,
                           "confirmed", txs'[Len(txs')].transactionId)
        /\ UNCHANGED <<programId, questions>>
        /\ UNCHANGED <<shareVars, cipherVars>>

storeQuestionHash(questionId, hash, saveOk) ==
    storeData("question_hash", "Question", questionId, hash, saveOk)

storePaperHash(paperId, hash, saveOk) ==
    storeData("paper_hash", "ExamPaper", paperId, hash, saveOk)

storeRankHash(paperId, hash, saveOk) ==
    storeData("rank_hash", "ExamPaper", paperId, hash, saveOk)

\* Model.findOne(filter) without a sort, hits being the documents that match the
\* filter: some document that matches, in an order the database chooses (0 stands
\* for null, no match)
findOne(hits) == IF hits = {} THEN {0} ELSE hits

\* the lookup without the status filter
verifyLookup_anyStatus(coll, eid, etype) ==
    findOne({i \in 1..Len(coll) : coll[i].entityId = eid /\ coll[i].entityType = etype})

\* the lookup of verifyDataIntegrity: { entityId, entityType, status: 'confirmed' }
verifyLookup(coll, eid, etype) ==
    findOne({i \in 1..Len(coll) : /\ coll[i].entityId = eid
                                  /\ coll[i].entityType = etype
                                  /\ coll[i].status = "confirmed"})

\* verifyDataIntegrity once the lookup has answered (found: an index, or 0) or was
\* rejected (dbOk false): the catch block returns false
verifyResult(coll, found, localHash, dbOk) ==
    IF ~dbOk THEN [threw |-> FALSE, value |-> "false"]
    ELSE IF found = 0 THEN [threw |-> FALSE, value |-> "false"]
    ELSE [threw |-> FALSE, value |-> Bool(coll[found].dataHash = localHash)]

verifyDataIntegrity(eid, etype, localHash, dbOk) ==
    \E found \in verifyLookup(txs, eid, etype) :
        LET r == verifyResult(txs, found, localHash, dbOk)
        IN  /\ ret' = [Ret("verifyDataIntegrity", found, "", etype, eid, localHash,
                           r.threw, r.value, 0) EXCEPT !.dbOk = dbOk]
            /\ UNCHANGED <<programId, txs, questions>>
            /\ UNCHANGED <<shareVars, cipherVars>>

\* ------------------------------------------- models/ExamPaper (shamirShares)
\* schema: threshold min 2, max 10; totalShares min 2, max 20
ThresholdMin == 2
ThresholdMax == 10
TotalSharesMin == 2
TotalSharesMax == 20

ShareIds == {1, 2}
ShareValues == {"s1", "s2"}
Holders == {"h1", "h2"}

\* no document: nothing was saved yet, or nothing was loaded
NoPaper == [persisted |-> FALSE, threshold |-> 0, totalShares |-> 0,
            status |-> "none", activatedAt |-> UNSET, completedAt |-> UNSET,
            shamirShares |-> <<>>]

\* new ExamPaper({threshold, totalShares, ...}): status defaults to 'generated'
NewPaper(threshold, totalShares) ==
    [persisted |-> FALSE, threshold |-> threshold, totalShares |-> totalShares,
     status |-> "generated", activatedAt |-> UNSET, completedAt |-> UNSET,
     shamirShares |-> <<>>]

\* an element of shamirShares as pushed: isUsed defaults to false
NewShare(shareId, share, holder) ==
    [shareId |-> shareId, share |-> share, holder |-> holder, distributedAt |-> "set",
     isUsed |-> FALSE]

\* the validators that save() runs on threshold, totalShares and the pushed shares
validatePaper(doc) ==
    /\ doc.threshold >= ThresholdMin
    /\ doc.threshold <= ThresholdMax
    /\ doc.totalShares >= TotalSharesMin
    /\ doc.totalShares <= TotalSharesMax
    /\ \A i \in 1..Len(doc.shamirShares) :
          doc.shamirShares[i].share # "" /\ doc.shamirShares[i].holder # ""

\* addShamirShare up to this.save(): the share is pushed
addShamirShare(doc, shareId, share, holder) ==
    [doc EXCEPT !.shamirShares = Append(@, NewShare(shareId, share, holder))]

\* this.shamirShares.find(s => s.shareId === shareId): the first element that matches
\* (0: undefined)
findShare(doc, shareId) ==
    LET hits == {i \in 1..Len(doc.shamirShares) : doc.shamirShares[i].shareId = shareId}
    IN  IF hits = {} THEN 0 ELSE CHOOSE i \in hits : \A j \in hits : i <= j

\* markShareAsUsed up to this.save(); it throws 'Share not found' when find finds none
markShareAsUsedThrows(doc, shareId) == findShare(doc, shareId) = 0

markShareAsUsed(doc, shareId) ==
    IF markShareAsUsedThrows(doc, shareId) THEN doc
    ELSE [doc EXCEPT !.shamirShares[findShare(doc, shareId)].isUsed = TRUE]

\* getAvailableShares: the shares that are not used, in order
getAvailableShares(doc) ==
    LET notUsed(s) == ~s.isUsed IN SelectSeq(doc.shamirShares, notUsed)

hasEnoughShares(doc) == Len(getAvailableShares(doc)) >= doc.threshold

\* the values of the status enum, in the order of the schema
PaperStatuses == <<"generated", "distributed", "decrypted", "active", "completed",
                   "archived">>

\* activate and complete up to this.save()
activate(doc) == [doc EXCEPT !.status = "active", !.activatedAt = "set"]
complete(doc) == [doc EXCEPT !.status = "completed", !.completedAt = "set"]

\* the outcome of a call on the paper: the operation, the share id, share value and
\* holder it was made with, whether it threw and what it returned
PRet(op, shareId, share, holder, threw, value) ==
    [op |-> op, shareId |-> shareId, share |-> share, holder |-> holder,
     threw |-> threw, value |-> value]

NoPRet == PRet("none", 0, "", "", FALSE, "none")

\* the requests that work on the paper at the same time
Requests == {1, 2}

\* a request that has not loaded the paper
NoCopy == [pc |-> "idle", doc |-> NoPaper, shareId |-> 0, found |-> 0, accepted |-> <<>>]

\* ------------------------------------- the shamir-secret-sharing dependency
\* The package is not part of the repository.  It is modelled as the threshold scheme
\* of the specification: a random polynomial of degree T - 1 per secret byte over a
\* prime field, a share being the values at x followed by x itself, and
\* reconstruction by Lagrange interpolation at 0.
FieldPrime == 7

Inverses ==
    [a \in 1..(FieldPrime - 1) |->
        CHOOSE b \in 1..(FieldPrime - 1) : (a * b) % FieldPrime = 1]

inverse(a) == Inverses[a]

\* coeffs[1] + coeffs[2] x + coeffs[3] x^2 + ...
RECURSIVE evalPoly(_, _)
evalPoly(coeffs, x) ==
    IF coeffs = <<>> THEN 0
    ELSE (Head(coeffs) + x * evalPoly(Tail(coeffs), x)) % FieldPrime

\* the random coefficients of a split: T - 1 per byte of the secret
Coefficients(len, t) == [1..len -> [1..(t - 1) -> 0..(FieldPrime - 1)]]

\* InvalidPolicy: T < 2, T > N, more shares than the field has points, empty secret
shamirShareThrows(secret, n, t) ==
    t < 2 \/ t > n \/ n >= FieldPrime \/ Len(secret) = 0

shamirShare(secret, n, t, rand) ==
    [x \in 1..n |->
        Append([k \in 1..Len(secret) |-> evalPoly(<<secret[k]>> \o rand[k], x)], x)]

\* the x of a share: its last byte
xOf(buf) == buf[Len(buf)]

\* the product, over the points m' <= m other than j, of x_m' / (x_m' - x_j)
RECURSIVE basisAt0(_, _, _)
basisAt0(xs, j, m) ==
    IF m = 0 THEN 1
    ELSE IF m = j THEN basisAt0(xs, j, m - 1)
    ELSE (xs[m] * inverse((xs[m] - xs[j] + FieldPrime) % FieldPrime)
            * basisAt0(xs, j, m - 1)) % FieldPrime

\* the value at 0 of the polynomial through the points (xs[j'], ys[j']), j' <= j
RECURSIVE lagrangeAt0(_, _, _)
lagrangeAt0(xs, ys, j) ==
    IF j = 0 THEN 0
    ELSE (ys[j] * basisAt0(xs, j, Len(xs)) + lagrangeAt0(xs, ys, j - 1)) % FieldPrime

\* combine rejects an empty list, shares of different lengths and a repeated x
shamirCombineThrows(bufs) ==
    \/ Len(bufs) = 0
    \/ \E i, j \in 1..Len(bufs) : Len(bufs[i]) # Len(bufs[j])
    \/ \E i, j \in 1..Len(bufs) : i # j /\ xOf(bufs[i]) = xOf(bufs[j])

shamirCombine(bufs) ==
    [k \in 1..(Len(bufs[1]) - 1) |->
        lagrangeAt0([j \in 1..Len(bufs) |-> xOf(bufs[j])],
                    [j \in 1..Len(bufs) |-> bufs[j][k]], Len(bufs))]

\* ---------------------------------------------------------- utils/encryption.js
\* constructor: parseInt(process.env.SHAMIR_THRESHOLD) || 3,
\*              parseInt(process.env.SHAMIR_TOTAL_PARTS) || 5
DefaultThreshold == 3
DefaultTotalParts == 5

\* parseInt of an environment value; NaN is 0 here, both are falsy
parseInt(v) ==
    CASE v = "1" -> 1
      [] v = "2" -> 2
      [] v = "3" -> 3
      [] v = "4" -> 4
      [] OTHER -> 0

\* n || d
orDefault(n, d) == IF n = 0 THEN d ELSE n

\* new EncryptionService() under an environment
EncryptionService(envThreshold, envTotalParts) ==
    [threshold |-> orDefault(parseInt(envThreshold), DefaultThreshold),
     totalParts |-> orDefault(parseInt(envTotalParts), DefaultTotalParts)]

\* the characters of a secret, by their byte in UTF-8 (0x70 + k, k the field element)
Chars == <<"p", "q", "r", "s", "t", "u", "v">>

charCode(c) == CHOOSE k \in 0..(Len(Chars) - 1) : Chars[k + 1] = c

\* Buffer.from(secret, 'utf8') and buffer.toString('utf8')
utf8Encode(str) == [i \in 1..Len(str) |-> charCode(str[i])]
utf8Decode(buf) == [i \in 1..Len(buf) |-> Chars[buf[i] + 1]]

\* the hex digits with the high digit of a byte dropped
toHex_oneDigit(buf) == [i \in 1..Len(buf) |-> buf[i] % 16]

\* Buffer.from(share).toString('hex'): two digits per byte
toHex(buf) ==
    [i \in 1..(2 * Len(buf)) |->
        IF i % 2 = 1 THEN buf[(i + 1) \div 2] \div 16 ELSE buf[i \div 2] % 16]

\* Buffer.from(share.share, 'hex'): one byte per two digits
fromHex(hex) == [i \in 1..(Len(hex) \div 2) |-> 16 * hex[2 * i - 1] + hex[2 * i]]

\* splitSecret throws 'Failed to split secret' when shamir.share throws
splitSecretThrows(svc, secret) ==
    shamirShareThrows(utf8Encode(secret), svc.totalParts, svc.threshold)

\* splitSecret with the index of map() as the id
splitSecret_zeroBased(svc, secret, rand) ==
    LET secretBuffer == utf8Encode(secret)
        bufs == shamirShare(secretBuffer, svc.totalParts, svc.threshold, rand)
    IN  [index \in 1..Len(bufs) |->
            [id |-> index - 1, share |-> toHex(bufs[index]),
             threshold |-> svc.threshold, totalParts |-> svc.totalParts]]

\* splitSecret: the share objects, rand being the randomness of shamir.share
splitSecret(svc, secret, rand) ==
    LET secretBuffer == utf8Encode(secret)
        bufs == shamirShare(secretBuffer, svc.totalParts, svc.threshold, rand)
    IN  [index \in 1..Len(bufs) |->
            [id |-> (index - 1) + 1, share |-> toHex(bufs[index]),
             threshold |-> svc.threshold, totalParts |-> svc.totalParts]]

\* the buffers that reconstructSecret hands to shamir.combine
shareBuffers(list) == [i \in 1..Len(list) |-> fromHex(list[i].share)]

\* the length check of reconstructSecret, one share short
tooFewShares_offByOne(svc, list) == Len(list) < svc.threshold - 1

\* if (shares.length < this.threshold) throw new Error('Insufficient shares ...')
tooFewShares(svc, list) == Len(list) < svc.threshold

\* reconstructSecret throws 'Failed to reconstruct secret' for too few shares and
\* when shamir.combine throws
reconstructSecretThrows(svc, list) ==
    tooFewShares(svc, list) \/ shamirCombineThrows(shareBuffers(list))

reconstructSecret(svc, list) == utf8Decode(shamirCombine(shareBuffers(list)))

\* the outcome of a call on the EncryptionService: whether it threw, the secret it
\* got (splitSecret) or returned (reconstructSecret), and of the list that reconstructSecret got: its length, whether its ids
\* are distinct, the split that all its shares are of (0: none), and whether it holds
\* at least threshold shares with distinct ids of one split
ERet(op, threw, value, count, distinctIds, split, quorum) ==
    [op |-> op, threw |-> threw, value |-> value, count |-> count,
     distinctIds |-> distinctIds, split |-> split, quorum |-> quorum]

NoERet == ERet("none", FALSE, <<>>, 0, TRUE, 0, FALSE)

\* nothing was split yet
NoShares == <<>>

\* ------------------------------------------- utils/encryption.js, the cipher
\* generateRandomKey(length = 32): the bytes of a key
KeyLength == 32
\* crypto.randomBytes(16): the bytes of the iv
IvLength == 16
\* the bytes of the tag that getAuthTag returns
TagLength == 16
\* the tag lengths that setAuthTag takes when the decipher was made without
\* authTagLength
AuthTagLengths == {4, 8, 12, 13, 14, 15, 16}

\* the values of ENCRYPTION_KEY: two keys, as hex strings
EnvKeys == <<toHex([i \in 1..KeyLength |-> 170]), toHex([i \in 1..KeyLength |-> 187])>>

\* crypto.randomBytes(n): the buffers a call may return (two of them)
randomBytes(n) == {[i \in 1..n |-> b] : b \in {17, 34}}

RECURSIVE SumBytes(_)
SumBytes(buf) == IF Len(buf) = 0 THEN 0 ELSE buf[1] + SumBytes(Tail(buf))

RECURSIVE WeightedSum(_)
WeightedSum(buf) ==
    IF Len(buf) = 0 THEN 0 ELSE Len(buf) * buf[Len(buf)] + WeightedSum(SubSeq(buf, 1, Len(buf) - 1))

\* crypto.createCipher(algorithm, password) and crypto.createDecipher: the key and
\* the iv of the cipher are both derived from the password, there is no iv argument
createCipher(password) == [key |-> password, iv |-> password]

\* a decipher whose iv is not the one createCipher derives
createDecipher_zeroIv(password) == [key |-> password, iv |-> <<>>]

createDecipher(password) == [key |-> password, iv |-> password]

\* byte i of the key stream of a cipher
keystream(c, i) == (SumBytes(c.key) + 3 * SumBytes(c.iv) + i) % 256

\* cipher.update(data) + cipher.final(): the ciphertext bytes of the data bytes
cipherUpdate(c, data) == [i \in 1..Len(data) |-> (data[i] + keystream(c, i)) % 256]

\* decipher.update(ct) + decipher.final(): the data bytes of the ciphertext bytes
decipherUpdate(c, ct) == [i \in 1..Len(ct) |-> (ct[i] + 256 - keystream(c, i)) % 256]

\* cipher.getAuthTag(): the tag of a ciphertext under the key and iv of the cipher
getAuthTag(c, ct) ==
    [j \in 1..TagLength |->
        (SumBytes(c.key) + 5 * SumBytes(c.iv) + WeightedSum(ct) + Len(ct) + 11 * j) % 256]

\* decipher.setAuthTag(tag) throws on a tag of an invalid length
setAuthTagThrows(tag) == Len(tag) \notin AuthTagLengths

\* decipher.final() throws unless the tag that was set is the tag of the ciphertext,
\* compared over the length of the tag that was set
finalThrows(c, ct, tag) == tag # SubSeq(getAuthTag(c, ct), 1, Len(tag))

\* the secrets handed to encrypt
Plaintexts == {<<>>, <<"q">>, <<"r", "s">>}

\* encrypt(data) of a service with this key, iv being what randomBytes returned
encrypt(key_hex, data, iv) ==
    LET key == fromHex(key_hex)
        cipher == createCipher(key)
        encrypted == cipherUpdate(cipher, utf8Encode(data))
        authTag == getAuthTag(cipher, encrypted)
    IN  [encrypted |-> toHex(encrypted), iv |-> toHex(iv), authTag |-> toHex(authTag)]

\* decrypt throws 'Failed to decrypt data' when setAuthTag or final throws
decryptThrows(key_hex, encryptedData) ==
    LET key == fromHex(key_hex)
        authTag == fromHex(encryptedData.authTag)
        decipher == createDecipher(key)
    IN  \/ setAuthTagThrows(authTag)
        \/ finalThrows(decipher, fromHex(encryptedData.encrypted), authTag)

\* decrypt(encryptedData) of a service with this key; the iv of the payload is
\* decoded and not used
decrypt(key_hex, encryptedData) ==
    LET key == fromHex(key_hex)
        iv == fromHex(encryptedData.iv)
        decipher == createDecipher(key)
    IN  utf8Decode(decipherUpdate(decipher, fromHex(encryptedData.encrypted)))

NoPayload == [encrypted |-> <<>>, iv |-> <<>>, authTag |-> <<>>]
NoSealed == [made |-> FALSE, data |-> <<>>, key |-> <<>>, payload |-> NoPayload]

\* the outcome of encrypt or decrypt: whether it threw, the string that decrypt
\* returned, the key of the service and the payload returned or given
CRet(op, threw, value, key, payload) ==
    [op |-> op, threw |-> threw, value |-> value, key |-> key, payload |-> payload]

NoCRet == CRet("none", FALSE, <<>>, <<>>, NoPayload)

\* the service as constructed under the first key, before any call
InitCipher ==
    /\ encryptionKey = EnvKeys[1]
    /\ sealed = NoSealed
    /\ cret = NoCRet

\* share keeping and secret splitting before any call: no paper, and the singleton
\* built from an empty environment
InitShare ==
    /\ paper = NoPaper
    /\ copies = [r \in Requests |-> NoCopy]
    /\ pret = NoPRet
    /\ service = EncryptionService("", "")
    /\ shares = NoShares
    /\ eret = NoERet
    /\ InitCipher

\* ------------------------------------------------- the services specification
\* The program as it is wired: documents are written by the store*Hash methods only.
StoreQuestionHash ==
    \E eid \in EntityIds, h \in Hashes, ok \in BOOLEAN :
        Len(txs) < MaxTx /\ storeQuestionHash(eid, h, ok)

StorePaperHash ==
    \E eid \in EntityIds, h \in Hashes, ok \in BOOLEAN :
        Len(txs) < MaxTx /\ storePaperHash(eid, h, ok)

StoreRankHash ==
    \E eid \in EntityIds, h \in Hashes, ok \in BOOLEAN :
        Len(txs) < MaxTx /\ storeRankHash(eid, h, ok)

VerifyDataIntegrity ==
    \E eid \in EntityIds, etype \in {"Question", "ExamPaper"}, h \in Hashes,
       dbOk \in BOOLEAN :
        verifyDataIntegrity(eid, etype, h, dbOk)

Init ==
    /\ programId = NULL
    /\ txs = <<>>
    /\ questions = <<>>
    /\ ret = NoRet
    /\ InitShare

Next ==
    \/ Initialize
    \/ StoreQuestionHash
    \/ StorePaperHash
    \/ StoreRankHash
    \/ VerifyDataIntegrity

Spec == Init /\ [][Next]_vars

\* ---------------------------------------- the document-lifecycle specification
\* The instance methods of a stored document, callable on any document at any time.
SubmitTx ==
    \E h \in Hashes, ok \in BOOLEAN :
        Len(txs) < MaxLifecycleTx /\ storePaperHash("e1", h, ok)

LifecycleRet(op, i) ==
    Ret(op, i, txs[i].type, txs[i].entityType, txs[i].entityId, "", FALSE, "none", 0)

MarkConfirmed ==
    \E i \in 1..Len(txs) :
        /\ txs' = saveAt(txs, i, markConfirmed(txs[i]))
        /\ ret' = LifecycleRet("markConfirmed", i)
        /\ UNCHANGED <<programId, questions>>
        /\ UNCHANGED <<shareVars, cipherVars>>

MarkFinalized ==
    \E i \in 1..Len(txs) :
        /\ txs' = saveAt(txs, i, markFinalized(txs[i]))
        /\ ret' = LifecycleRet("markFinalized", i)
        /\ UNCHANGED <<programId, questions>>
        /\ UNCHANGED <<shareVars, cipherVars>>

MarkFailed ==
    \E i \in 1..Len(txs), msg \in ErrorMessages :
        /\ txs' = saveAt(txs, i, markFailed(txs[i], msg))
        /\ ret' = LifecycleRet("markFailed", i)
        /\ UNCHANGED <<programId, questions>>
        /\ UNCHANGED <<shareVars, cipherVars>>

IncrementRetry ==
    \E i \in 1..Len(txs) :
        /\ txs[i].retryCount < MaxRetryCount
        /\ txs' = saveAt(txs, i, incrementRetry(txs[i]))
        /\ ret' = LifecycleRet("incrementRetry", i)
        /\ UNCHANGED <<programId, questions>>
        /\ UNCHANGED <<shareVars, cipherVars>>

ResetForRetry ==
    \E i \in 1..Len(txs) :
        /\ txs' = saveAt(txs, i, resetForRetry(txs[i]))
        /\ ret' = LifecycleRet("resetForRetry", i)
        /\ UNCHANGED <<programId, questions>>
        /\ UNCHANGED <<shareVars, cipherVars>>

VerifyTx ==
    \E eid \in EntityIds, h \in Hashes, dbOk \in BOOLEAN :
        verifyDataIntegrity(eid, "ExamPaper", h, dbOk)

NextTx ==
    \/ Initialize
    \/ SubmitTx
    \/ MarkConfirmed
    \/ MarkFinalized
    \/ MarkFailed
    \/ IncrementRetry
    \/ ResetForRetry
    \/ VerifyTx

SpecTx == Init /\ [][NextTx]_vars

\* ------------------------------------------------------- models/Question.js
QuestionIds == {"Q1", "Q2"}

\* the paths of a question that questionHash covers, and one that it does not
HashedFields == {"questionText", "options", "correctAnswer", "subject", "topic"}
EditableFields == HashedFields \cup {"difficulty"}

FieldValues(f) ==
    CASE f = "questionText" -> {"t1", "t2"}
      [] f = "options" -> {"o1", "o2"}
      [] f = "correctAnswer" -> {"A", "B"}
      [] f = "subject" -> {"s1", "s2"}
      [] f = "topic" -> {"p1", "p2"}
      [] f = "difficulty" -> {"medium", "hard"}

\* no hash: blockchainHash of a question that was not anchored
NoHash == <<>>

\* questionHash with the topic left out of the hashed data
questionHash_noTopic(q) == <<q.questionText, q.options, q.correctAnswer, q.subject>>

\* virtual questionHash: SHA-256 over JSON.stringify of five paths, in this order;
\* the digest is modelled by the hashed data itself (no collisions)
questionHash(q) == <<q.questionText, q.options, q.correctAnswer, q.subject, q.topic>>

\* new Question({...questionData}); uploaded records what was uploaded
NewQuestion(data) ==
    [questionId |-> data.questionId, questionText |-> data.questionText,
     options |-> data.options, correctAnswer |-> data.correctAnswer,
     subject |-> data.subject, topic |-> data.topic, difficulty |-> "medium",
     blockchainHash |-> NoHash, blockchainTxId |-> 0,
     uploaded |-> [f \in HashedFields |-> data[f]]]

\* ------------------------------------------------ services/QuestionService.js
\* validateQuestionData: the required fields are there and correctAnswer is A..D
validateQuestionData(data) ==
    /\ \A f \in HashedFields : data[f] # ""
    /\ data.correctAnswer \in {"A", "B", "C", "D"}

\* the question data that is uploaded; an empty topic is a missing field
QuestionData ==
    [questionId : QuestionIds, questionText : {"t1"}, options : {"o1"},
     correctAnswer : {"A"}, subject : {"s1"}, topic : {"p1", ""}]

questionOf(coll, questionId) == {i \in 1..Len(coll) : coll[i].questionId = questionId}

uploadQuestion(data, saveOk) ==
    IF ~validateQuestionData(data) \/ questionOf(questions, data.questionId) # {}
    THEN \* validation error, or question.save() hits the unique questionId index
         /\ ret' = Ret("uploadQuestion", 0, "", "Question", data.questionId, "", TRUE,
                       "none", 0)
         /\ UNCHANGED <<programId, txs, questions>>
         /\ UNCHANGED <<shareVars, cipherVars>>
    ELSE LET question == NewQuestion(data)
             hash == questionHash(question)
             doc == storeDataDoc(txs, "question_hash", "Question", question.questionId,
                                 hash)
             anchored == ~storeDataThrows(programId, saveOk)
             txId == IF anchored THEN preSave(doc, txs).transactionId ELSE 0
         IN  /\ txs' = storeDataSave(txs, programId, saveOk, doc)
             /\ questions' = Append(questions,
                    IF anchored
                    THEN [question EXCEPT !.blockchainHash = hash,
                                          !.blockchainTxId = txId]
                    ELSE question)  \* continue without blockchain storage
             /\ ret' = Ret("uploadQuestion", Len(questions'), "", "Question",
                           data.questionId, "", FALSE, Bool(anchored), txId)
             /\ UNCHANGED programId
             /\ UNCHANGED <<shareVars, cipherVars>>

\* the lookup of getQuestionHash: { type: 'question_hash', entityId, status: 'confirmed' }
questionHashLookup(coll, questionId) ==
    findOne({i \in 1..Len(coll) : /\ coll[i].type = "question_hash"
                                  /\ coll[i].entityId = questionId
                                  /\ coll[i].status = "confirmed"})

\* verifyQuestionIntegrity with the answer of getQuestionHash's lookup (found)
verifyQuestionResult(qs, coll, questionId, found) ==
    IF questionOf(qs, questionId) = {} THEN "false"  \* 'Question not found', caught
    ELSE LET question == qs[CHOOSE i \in questionOf(qs, questionId) : TRUE]
             currentHash == questionHash(question)
         IN  IF question.blockchainHash # NoHash
             THEN IF found = 0 THEN "false"  \* getQuestionHash throws, caught
                  ELSE Bool(currentHash = coll[found].dataHash)
             ELSE "true"  \* no blockchain hash: local verification

verifyQuestionIntegrity(questionId) ==
    \E found \in questionHashLookup(txs, questionId) :
        /\ ret' = Ret("verifyQuestionIntegrity", found, "", "Question", questionId, "",
                      FALSE, verifyQuestionResult(questions, txs, questionId, found), 0)
        /\ UNCHANGED <<programId, txs, questions>>
        /\ UNCHANGED <<shareVars, cipherVars>>

\* ------------------------------------------------ the question specification
UploadQuestion ==
    \E data \in QuestionData, ok \in BOOLEAN :
        Len(questions) < MaxQuestions /\ uploadQuestion(data, ok)

\* a write to a stored question that does not pass through the service
EditQuestion ==
    \E i \in 1..Len(questions), f \in EditableFields :
        \E v \in FieldValues(f) \ {questions[i][f]} :
            /\ questions' = [questions EXCEPT ![i][f] = v]
            /\ ret' = Ret("editQuestion", i, "", "Question", questions[i].questionId,
                          "", FALSE, "none", 0)
            /\ UNCHANGED <<programId, txs>>
            /\ UNCHANGED <<shareVars, cipherVars>>

VerifyQuestionIntegrity ==
    \E questionId \in QuestionIds : verifyQuestionIntegrity(questionId)

NextQuestion ==
    \/ Initialize
    \/ UploadQuestion
    \/ EditQuestion
    \/ VerifyQuestionIntegrity

SpecQuestion == Init /\ [][NextQuestion]_vars

\* --------------------------------------------------- the retry specification
\* Freshly submitted documents (pending, retryCount 0), each with its own maxRetries,
\* on which nothing but incrementRetry is called.
PendingDoc(i, m) ==
    [NewTransaction("paper_hash", "ExamPaper", "e1", "hA")
        EXCEPT !.transactionId = i, !.solanaTxId = i, !.maxRetries = m]

InitRetry ==
    /\ programId = NULL
    /\ questions = <<>>
    /\ ret = NoRet
    /\ InitShare
    /\ \E ms \in [1..RetryDocs -> 1..MaxMaxRetries] :
          txs = [i \in 1..RetryDocs |-> PendingDoc(i, ms[i])]

NextRetry == IncrementRetry

SpecRetry == InitRetry /\ [][NextRetry]_vars

\* the specification of the lifecycle with calls that keep arriving
FairSpecTx == SpecTx /\ WF_vars(NextTx)

\* --------------------------------------------------- the paper specification
\* One ExamPaper document and the calls of its share methods, each call with its
\* save() as one step.
PaperThresholds == {1, 2, 3, 11}
PaperTotals == {1, 2, 3, 21}

\* doc.save() on the stored document: rejected by a validator, or written
savePaper(stored, doc) ==
    IF validatePaper(doc) THEN [doc EXCEPT !.persisted = TRUE] ELSE stored

CreatePaper ==
    \E threshold \in PaperThresholds, totalShares \in PaperTotals :
        LET doc == NewPaper(threshold, totalShares)
        IN  /\ ~paper.persisted
            /\ paper' = savePaper(paper, doc)
            /\ pret' = PRet("save", 0, "", "", ~validatePaper(doc), "none")
            /\ UNCHANGED <<copies, service, shares, eret>>
            /\ UNCHANGED <<anchorVars, cipherVars>>

AddShamirShare ==
    \E shareId \in ShareIds, share \in ShareValues, holder \in Holders :
        LET doc == addShamirShare(paper, shareId, share, holder)
        IN  /\ paper.persisted
            /\ Len(paper.shamirShares) < MaxShares
            /\ paper' = savePaper(paper, doc)
            /\ pret' = PRet("addShamirShare", shareId, share, holder,
                            ~validatePaper(doc), "none")
            /\ UNCHANGED <<copies, service, shares, eret>>
            /\ UNCHANGED <<anchorVars, cipherVars>>

\* a submission of share shareId with the value that the submitter holds;
\* markShareAsUsed takes the id only
MarkShareAsUsed ==
    \E shareId \in ShareIds, value \in ShareValues :
        /\ paper.persisted
        /\ paper' = savePaper(paper, markShareAsUsed(paper, shareId))
        /\ pret' = PRet("markShareAsUsed", shareId, value, "",
                        markShareAsUsedThrows(paper, shareId), "none")
        /\ UNCHANGED <<copies, service, shares, eret>>
        /\ UNCHANGED <<anchorVars, cipherVars>>

HasEnoughShares ==
    /\ paper.persisted
    /\ pret' = PRet("hasEnoughShares", 0, "", "", FALSE, Bool(hasEnoughShares(paper)))
    /\ UNCHANGED <<paper, copies, service, shares, eret>>
    /\ UNCHANGED <<anchorVars, cipherVars>>

Activate ==
    /\ paper.persisted
    /\ paper' = savePaper(paper, activate(paper))
    /\ pret' = PRet("activate", 0, "", "", FALSE, "none")
    /\ UNCHANGED <<copies, service, shares, eret>>
    /\ UNCHANGED <<anchorVars, cipherVars>>

Complete ==
    /\ paper.persisted
    /\ paper' = savePaper(paper, complete(paper))
    /\ pret' = PRet("complete", 0, "", "", FALSE, "none")
    /\ UNCHANGED <<copies, service, shares, eret>>
    /\ UNCHANGED <<anchorVars, cipherVars>>

NextPaper ==
    \/ CreatePaper
    \/ AddShamirShare
    \/ MarkShareAsUsed
    \/ HasEnoughShares
    \/ Activate
    \/ Complete

SpecPaper == Init /\ [][NextPaper]_vars

\* ---------------------------------------------- the submission specification
\* Two requests submit shares of one paper at the same time.  Each loads the
\* document (ExamPaper.findOne), calls markShareAsUsed on its copy, and its save()
\* lands later: save() writes the paths that the request modified.
DistributedPaper(threshold, vals) ==
    [NewPaper(threshold, SubmitShares)
        EXCEPT !.persisted = TRUE,
               !.shamirShares = [i \in 1..SubmitShares |->
                                    NewShare(i, vals[i], IF i = 1 THEN "h1" ELSE "h2")]]

InitSubmit ==
    /\ programId = NULL
    /\ txs = <<>>
    /\ questions = <<>>
    /\ ret = NoRet
    /\ copies = [r \in Requests |-> NoCopy]
    /\ pret = NoPRet
    /\ service = EncryptionService("", "")
    /\ shares = NoShares
    /\ eret = NoERet
    /\ InitCipher
    /\ \E threshold \in {2, 3}, vals \in [1..SubmitShares -> ShareValues] :
          paper = DistributedPaper(threshold, vals)

\* ExamPaper.findOne(...): the request gets the document as it is stored now
LoadPaper(r) ==
    /\ copies[r].pc = "idle"
    /\ Len(copies[r].accepted) < MaxSubmissions
    /\ copies' = [copies EXCEPT ![r].pc = "loaded", ![r].doc = paper]
    /\ UNCHANGED <<paper, pret, service, shares, eret>>
    /\ UNCHANGED <<anchorVars, cipherVars>>

\* markShareAsUsed(shareId) on the copy, up to the call of save()
MarkCopy(r) ==
    \E shareId \in 1..(SubmitShares + 1) :
        /\ copies[r].pc = "loaded"
        /\ copies' = [copies EXCEPT
              ![r].pc = IF markShareAsUsedThrows(copies[r].doc, shareId)
                        THEN "idle" ELSE "saving",
              ![r].doc = markShareAsUsed(copies[r].doc, shareId),
              ![r].shareId = shareId,
              ![r].found = findShare(copies[r].doc, shareId)]
        /\ UNCHANGED <<paper, pret, service, shares, eret>>
        /\ UNCHANGED <<anchorVars, cipherVars>>

\* the write of a save() after markShareAsUsed: $set of shamirShares.<i>.isUsed
saveIsUsed(stored, i) == [stored EXCEPT !.shamirShares[i].isUsed = TRUE]

\* save() lands and the submission is answered as accepted
SaveCopy(r) ==
    /\ copies[r].pc = "saving"
    /\ paper' = saveIsUsed(paper, copies[r].found)
    /\ copies' = [copies EXCEPT ![r].pc = "idle",
                                ![r].accepted = Append(@, copies[r].shareId)]
    /\ UNCHANGED <<pret, service, shares, eret>>
    /\ UNCHANGED <<anchorVars, cipherVars>>

NextSubmit ==
    \/ \E r \in Requests : LoadPaper(r)
    \/ \E r \in Requests : MarkCopy(r)
    \/ \E r \in Requests : SaveCopy(r)

SpecSubmit == InitSubmit /\ [][NextSubmit]_vars

\* -------------------------------------------------- the splitting specification
\* The EncryptionService singleton under some environment, one secret that
\* splitSecret splits, and reconstructSecret on lists of the shares it returned.
EnvThresholds == {"", "1", "2"}
EnvTotalParts == {"", "2", "4"}

\* the secrets that are split: one character, or none
Secrets == {<<>>, <<"q">>, <<"r">>}

InitShamir ==
    /\ programId = NULL
    /\ txs = <<>>
    /\ questions = <<>>
    /\ ret = NoRet
    /\ paper = NoPaper
    /\ copies = [r \in Requests |-> NoCopy]
    /\ pret = NoPRet
    /\ shares = NoShares
    /\ eret = NoERet
    /\ InitCipher
    /\ \E envThreshold \in EnvThresholds, envTotalParts \in EnvTotalParts :
          service = EncryptionService(envThreshold, envTotalParts)

\* a splitSecret call on one of some secrets
splitSecretCall(secrets) ==
    \E secret \in secrets :
        IF splitSecretThrows(service, secret)
        THEN /\ eret' = ERet("splitSecret", TRUE, secret, 0, TRUE, 0, FALSE)
             /\ UNCHANGED <<paper, copies, pret, service, shares>>
             /\ UNCHANGED <<anchorVars, cipherVars>>
        ELSE \E rand \in Coefficients(Len(secret), service.threshold) :
                /\ shares' = Append(shares,
                      [secret |-> secret, list |-> splitSecret(service, secret, rand)])
                /\ eret' = ERet("splitSecret", FALSE, secret, 0, TRUE, 0, FALSE)
                /\ UNCHANGED <<paper, copies, pret, service>>
                /\ UNCHANGED <<anchorVars, cipherVars>>

\* the one secret is split
SplitSecret == shares = NoShares /\ splitSecretCall(Secrets)

\* the shares that were handed out, each with the split it is of
Pool ==
    UNION {{[split |-> k, index |-> i] : i \in 1..Len(shares[k].list)} :
              k \in 1..Len(shares)}

\* the lists of at most maxLen handed-out shares, a share possibly more than once
\* (the order of a list makes no difference to reconstructSecret)
Picks(maxLen) ==
    UNION {{pick \in [1..len -> Pool] :
               \A i \in 1..(len - 1) :
                  \/ pick[i].split < pick[i + 1].split
                  \/ /\ pick[i].split = pick[i + 1].split
                     /\ pick[i].index <= pick[i + 1].index} :
              len \in 0..maxLen}

\* the split that all shares of a list are of (0: none, the list is empty or mixed)
splitOf(pick) ==
    IF pick # <<>> /\ \A i \in 1..Len(pick) : pick[i].split = pick[1].split
    THEN pick[1].split ELSE 0

\* the ids of the shares of split k in a list
idsOf(pick, k) ==
    {shares[k].list[pick[i].index].id : i \in {j \in 1..Len(pick) : pick[j].split = k}}

\* reconstructSecret on a list: what it throws or returns
reconstructRet(svc, pick) ==
    LET list == [i \in 1..Len(pick) |-> shares[pick[i].split].list[pick[i].index]]
    IN  ERet("reconstructSecret", reconstructSecretThrows(svc, list),
             IF reconstructSecretThrows(svc, list) THEN <<>>
             ELSE reconstructSecret(svc, list),
             Len(list),
             \A i, j \in 1..Len(list) : list[i].id = list[j].id => i = j,
             splitOf(pick),
             \E k \in 1..Len(shares) : Cardinality(idsOf(pick, k)) >= svc.threshold)

ReconstructSecret ==
    \E pick \in Picks(MaxListLen) :
        /\ eret' = reconstructRet(service, pick)
        /\ UNCHANGED <<paper, copies, pret, service, shares>>
        /\ UNCHANGED <<anchorVars, cipherVars>>

NextShamir ==
    \/ SplitSecret
    \/ ReconstructSecret

SpecShamir == InitShamir /\ [][NextShamir]_vars

\* ------------------------------------------------------ the mixing specification
\* Two different secrets are split by a service with threshold 2, and
\* reconstructSecret gets lists of shares of both splits.
InitMixed ==
    /\ programId = NULL
    /\ txs = <<>>
    /\ questions = <<>>
    /\ ret = NoRet
    /\ paper = NoPaper
    /\ copies = [r \in Requests |-> NoCopy]
    /\ pret = NoPRet
    /\ shares = NoShares
    /\ eret = NoERet
    /\ InitCipher
    /\ \E envTotalParts \in {"2", "3"} : service = EncryptionService("2", envTotalParts)

\* a secret that was not split before is split
SplitSecrets ==
    /\ Len(shares) < MixedSplits
    /\ splitSecretCall(Secrets \ {shares[k].secret : k \in 1..Len(shares)})

NextMixed ==
    \/ SplitSecrets
    \/ ReconstructSecret

SpecMixed == InitMixed /\ [][NextMixed]_vars

\* ------------------------------------------------------ the cipher specification
\* A service is constructed under either key; encrypt seals a plaintext, and
\* decrypt is given the payload of the last encrypt as it is or altered.

\* a hex string with its last digit altered
bumpLast(hex) == [hex EXCEPT ![Len(hex)] = (hex[Len(hex)] + 1) % 16]

\* the payloads handed to decrypt: the one encrypt returned, and that one with the
\* ciphertext altered, the tag altered, the tag cut to 4 and to 3 bytes, another iv
Payloads(p) ==
    {p}
    \cup (IF Len(p.encrypted) = 0 THEN {} ELSE {[p EXCEPT !.encrypted = bumpLast(p.encrypted)]})
    \cup {[p EXCEPT !.authTag = bumpLast(p.authTag)]}
    \cup {[p EXCEPT !.authTag = SubSeq(p.authTag, 1, 2 * n)] : n \in {3, 4}}
    \cup {[p EXCEPT !.iv = toHex(iv)] : iv \in randomBytes(IvLength)}

Construct ==
    /\ \E k \in 1..Len(EnvKeys) : encryptionKey' = EnvKeys[k]
    /\ UNCHANGED <<sealed, cret>>
    /\ UNCHANGED <<anchorVars, shareVars>>

Encrypt ==
    /\ \E data \in Plaintexts, iv \in randomBytes(IvLength) :
          LET payload == encrypt(encryptionKey, data, iv)
          IN  /\ sealed' = [made |-> TRUE, data |-> data, key |-> encryptionKey,
                            payload |-> payload]
              /\ cret' = CRet("encrypt", FALSE, <<>>, encryptionKey, payload)
    /\ UNCHANGED encryptionKey
    /\ UNCHANGED <<anchorVars, shareVars>>

Decrypt ==
    /\ sealed.made
    /\ \E encryptedData \in Payloads(sealed.payload) :
          cret' = IF decryptThrows(encryptionKey, encryptedData)
                  THEN CRet("decrypt", TRUE, <<>>, encryptionKey, encryptedData)
                  ELSE CRet("decrypt", FALSE, decrypt(encryptionKey, encryptedData),
                            encryptionKey, encryptedData)
    /\ UNCHANGED <<encryptionKey, sealed>>
    /\ UNCHANGED <<anchorVars, shareVars>>

NextCipher ==
    \/ Construct
    \/ Encrypt
    \/ Decrypt

SpecCipher == Init /\ [][NextCipher]_vars

\* ------------------------------------------------------------------- claims
\* the stored documents of an entity
RecordsOf(etype, eid) ==
    {i \in 1..Len(txs) : txs[i].entityType = etype /\ txs[i].entityId = eid}

ConfirmedOf(etype, eid) == {i \in RecordsOf(etype, eid) : txs[i].status = "confirmed"}

\* the confirmed document of an entity that was submitted last
LatestConfirmed(etype, eid) ==
    CHOOSE i \in ConfirmedOf(etype, eid) : \A j \in ConfirmedOf(etype, eid) : j <= i

\* C1: a document whose status is 'confirmed' keeps that status under every later
\* call of markConfirmed, markFinalized, markFailed, incrementRetry, resetForRetry.
C1_ConfirmedIsTerminal ==
    [][\A i \in 1..Len(txs) :
          txs[i].status = "confirmed" => txs'[i].status = "confirmed"]_vars

\* C2: on a pending document with retryCount 0 and maxRetries m, k calls of
\* incrementRetry (k = retryCount here) leave it pending while k < m and make it
\* failed, with failedAt set, at k = m; a failed document is not among the pending
\* documents that a retry would pick up.
C2_FailsExactlyAtMaxRetries ==
    \A i \in 1..Len(txs) :
        /\ txs[i].retryCount < txs[i].maxRetries
              => (txs[i].status = "pending" /\ txs[i].failedAt = UNSET)
        /\ txs[i].retryCount >= txs[i].maxRetries
              => (/\ txs[i].status = "failed"
                  /\ txs[i].failedAt = "set"
                  /\ i \notin findPending(txs))

\* one document has just failed at its limit of more than one retry while another
\* is still pending after a retry
C2_Witness ==
    /\ ret.op = "incrementRetry"
    /\ txs[ret.idx].status = "failed"
    /\ txs[ret.idx].retryCount = txs[ret.idx].maxRetries
    /\ txs[ret.idx].maxRetries > 1
    /\ \E j \in 1..Len(txs) : txs[j].status = "pending" /\ txs[j].retryCount > 0

\* C3: a failed document leaves 'failed' only through resetForRetry, to 'pending'.
C3_FailedLeavesOnlyByReset ==
    [][\A i \in 1..Len(txs) :
          (txs[i].status = "failed" /\ txs'[i].status # "failed")
              => (ret'.op = "resetForRetry" /\ ret'.idx = i
                  /\ txs'[i].status = "pending")]_vars

\* a step that resets document i from 'failed' to 'pending'
ResetStep(i) ==
    /\ i <= Len(txs)
    /\ txs[i].status = "failed"
    /\ txs'[i].status = "pending"

\* C4: the failed -> pending resets of a document are bounded; from some point on no
\* document is reset any more, whatever calls keep arriving.
C4_ResetsAreBounded ==
    \A i \in 1..MaxLifecycleTx : <>[][~ResetStep(i)]_vars

\* C5: a document is first persisted with status 'pending'.
C5_FirstPersistedPending ==
    [][Len(txs') > Len(txs) => txs'[Len(txs')].status = "pending"]_vars

\* C6: a storeData call that threw has left a 'failed' document of its entity.
C6_FailedAnchorIsRecorded ==
    (ret.op = "storeData" /\ ret.threw)
        => \E i \in RecordsOf(ret.entityType, ret.entityId) : txs[i].status = "failed"

\* C7: a storeData call leaves every stored document as it was, and a call that
\* returns has appended exactly one document, of its entity and with its hash.
C7_AnchorAppendsOne ==
    [][ret'.op = "storeData" =>
          /\ Len(txs') >= Len(txs)
          /\ SubSeq(txs', 1, Len(txs)) = txs
          /\ ~ret'.threw =>
                /\ Len(txs') = Len(txs) + 1
                /\ txs'[Len(txs')].entityType = ret'.entityType
                /\ txs'[Len(txs')].entityId = ret'.entityId
                /\ txs'[Len(txs')].dataHash = ret'.hash]_vars

\* an entity was anchored again: the call that returned last appended a document of
\* an entity that had one already
C7_Witness ==
    /\ ret.op = "storeData"
    /\ ~ret.threw
    /\ \E i \in RecordsOf(ret.entityType, ret.entityId) : i < ret.idx

\* C8: verifyDataIntegrity answers by the latest confirmed document of the entity
\* (here: an entity whose confirmed documents are all of one type).
C8_VerifyUsesLatestConfirmed ==
    (/\ ret.op = "verifyDataIntegrity"
     /\ ret.dbOk
     /\ ConfirmedOf(ret.entityType, ret.entityId) # {}
     /\ \A i, j \in ConfirmedOf(ret.entityType, ret.entityId) : txs[i].type = txs[j].type)
        => ret.value =
             Bool(txs[LatestConfirmed(ret.entityType, ret.entityId)].dataHash = ret.hash)

\* C9: verifyDataIntegrity never throws; it returns true only if a confirmed document
\* of the entity holds exactly localHash, and false if the entity has no confirmed
\* document or none of them holds localHash.
C9_VerifyIsBoolean ==
    ret.op = "verifyDataIntegrity" =>
        /\ ~ret.threw
        /\ ret.value \in {"true", "false"}
        /\ ret.value = "true" =>
              \E i \in ConfirmedOf(ret.entityType, ret.entityId) : txs[i].dataHash = ret.hash
        /\ (\A i \in ConfirmedOf(ret.entityType, ret.entityId) : txs[i].dataHash # ret.hash)
              => ret.value = "false"

\* the entity has a document that holds localHash, but none that is confirmed, and
\* verifyDataIntegrity answered false
C9_Witness ==
    /\ ret.op = "verifyDataIntegrity"
    /\ ret.dbOk
    /\ ret.value = "false"
    /\ ConfirmedOf(ret.entityType, ret.entityId) = {}
    /\ \E i \in RecordsOf(ret.entityType, ret.entityId) :
          txs[i].dataHash = ret.hash /\ txs[i].status \in {"pending", "failed"}

\* the stored question that verifyQuestionIntegrity was called for
VerifiedQuestion == questions[CHOOSE i \in questionOf(questions, ret.entityId) : TRUE]

\* the hashed paths of a question are as they were uploaded
Unchanged(q) == \A f \in HashedFields : q[f] = q.uploaded[f]

AnchorsOf(questionId, hash) ==
    {i \in 1..Len(txs) : /\ txs[i].type = "question_hash"
                         /\ txs[i].entityId = questionId
                         /\ txs[i].status = "confirmed"
                         /\ txs[i].dataHash = hash}

\* C11: verifyQuestionIntegrity returns true only if a confirmed question_hash
\* document exists whose dataHash is the current hash of the question; for a question
\* without anchor (blockchainHash not set) it returns false.
C11_TrueNeedsAnchor ==
    ret.op = "verifyQuestionIntegrity" =>
        /\ ret.value = "true" =>
              /\ questionOf(questions, ret.entityId) # {}
              /\ AnchorsOf(ret.entityId, questionHash(VerifiedQuestion)) # {}
        /\ (/\ questionOf(questions, ret.entityId) # {}
            /\ VerifiedQuestion.blockchainHash = NoHash) => ret.value = "false"

\* the shares of the stored paper that are marked used, and their ids
UsedShares == {i \in 1..Len(paper.shamirShares) : paper.shamirShares[i].isUsed}
UsedShareIds == {paper.shamirShares[i].shareId : i \in UsedShares}

\* C12: every shareId occurs at most once in shamirShares, bound to one holder, and
\* an addShamirShare call with a shareId that is there already for another holder is
\* rejected and leaves shamirShares as it was.
C12_ShareIdsUnique ==
    [][/\ \A i, j \in 1..Len(paper'.shamirShares) :
             paper'.shamirShares[i].shareId = paper'.shamirShares[j].shareId => i = j
       /\ (/\ pret'.op = "addShamirShare"
           /\ \E i \in 1..Len(paper.shamirShares) :
                 /\ paper.shamirShares[i].shareId = pret'.shareId
                 /\ paper.shamirShares[i].holder # pret'.holder)
              => (pret'.threw /\ paper'.shamirShares = paper.shamirShares)]_vars

\* C13: markShareAsUsed on a share that is used already throws and leaves the paper
\* as it was, so a share is counted as submitted at most once.
C13_UsedShareIsRejected ==
    [][(/\ pret'.op = "markShareAsUsed"
        /\ findShare(paper, pret'.shareId) # 0
        /\ paper.shamirShares[findShare(paper, pret'.shareId)].isUsed)
          => (pret'.threw /\ paper' = paper)]_vars

\* C14: hasEnoughShares is true exactly if the number of distinct shares that were
\* submitted (marked used) is at least the threshold.
C14_QuorumCountsUsedShares ==
    pret.op = "hasEnoughShares" =>
        pret.value = Bool(Cardinality(UsedShareIds) >= paper.threshold)

\* the submissions that were answered as accepted, and those of one share id
Accepts == UNION {{<<r, k>> : k \in 1..Len(copies[r].accepted)} : r \in Requests}
AcceptsOf(shareId) == {a \in Accepts : copies[a[1]].accepted[a[2]] = shareId}

\* C15: however two requests that submit shares of the same paper at the same time
\* interleave, no share id is accepted twice, and the number of shares marked used is
\* the number of distinct share ids that were accepted.
C15_NoDoubleAccept ==
    /\ \A shareId \in 1..(SubmitShares + 1) : Cardinality(AcceptsOf(shareId)) <= 1
    /\ Cardinality(UsedShares) =
          Cardinality({shareId \in 1..(SubmitShares + 1) : AcceptsOf(shareId) # {}})

\* C16: a submission marks a share used only if its share id is recorded and its
\* value is the recorded share value; otherwise it is rejected and no isUsed flag
\* changes.
C16_SubmissionIsValidated ==
    [][pret'.op = "markShareAsUsed" =>
          \/ \E i \in 1..Len(paper.shamirShares) :
                /\ paper.shamirShares[i].shareId = pret'.shareId
                /\ paper.shamirShares[i].share = pret'.share
          \/ /\ pret'.threw
             /\ \A i \in 1..Len(paper.shamirShares) :
                   paper'.shamirShares[i].isUsed = paper.shamirShares[i].isUsed]_vars

\* the threshold policy of the spec: 2 <= T <= N <= 20
ValidPolicy(threshold, total) == 2 <= threshold /\ threshold <= total /\ total <= 20

\* C17: every threshold policy that is accepted satisfies 2 <= T <= N <= 20: that of
\* a persisted ExamPaper (threshold, totalShares) and that of the EncryptionService
\* (threshold, totalParts).
C17_PolicyIsValid ==
    /\ paper.persisted => ValidPolicy(paper.threshold, paper.totalShares)
    /\ ValidPolicy(service.threshold, service.totalParts)

\* C18: for a valid policy and a non-empty secret, reconstructSecret on T distinct
\* shares of splitSecret(s) returns s.
C18_RoundTrip ==
    (/\ eret.op = "reconstructSecret"
     /\ ValidPolicy(service.threshold, service.totalParts)
     /\ eret.count = service.threshold
     /\ eret.distinctIds
     /\ eret.split # 0)
        => (~eret.threw /\ eret.value = shares[eret.split].secret)

\* T of N > T shares were given, and the secret came back
C18_Witness ==
    /\ eret.op = "reconstructSecret"
    /\ ValidPolicy(service.threshold, service.totalParts)
    /\ service.threshold < service.totalParts
    /\ eret.count = service.threshold
    /\ eret.distinctIds
    /\ eret.split # 0
    /\ ~eret.threw
    /\ eret.value = shares[eret.split].secret
    /\ eret.value # <<>>

\* C19: reconstructSecret with fewer than T shares throws and returns no secret.
C19_TooFewSharesThrow ==
    (eret.op = "reconstructSecret" /\ eret.count < service.threshold)
        => (eret.threw /\ eret.value = <<>>)

\* T - 1 >= 1 distinct shares of a split were given, and reconstructSecret threw
C19_Witness ==
    /\ eret.op = "reconstructSecret"
    /\ eret.count = service.threshold - 1
    /\ eret.count >= 1
    /\ eret.distinctIds
    /\ eret.split # 0
    /\ eret.threw

\* C20: reconstructSecret returns only if its list holds at least T shares with
\* distinct ids of one split, and it throws for a list of T entries that repeats a
\* share id or mixes two splits.
C20_OnlyConsistentLists ==
    eret.op = "reconstructSecret" =>
        /\ ~eret.threw => eret.quorum
        /\ (/\ eret.count = service.threshold
            /\ (~eret.distinctIds \/ eret.split = 0)) => eret.threw

\* C25: in every reachable state of a document, retryCount <= maxRetries.
C25_RetryCountWithinLimit ==
    \A i \in 1..Len(txs) : txs[i].retryCount <= txs[i].maxRetries

\* C26: a document whose confirmationStatus is 'finalized' has status 'confirmed'.
C26_FinalizedIsConfirmed ==
    \A i \in 1..Len(txs) :
        txs[i].confirmationStatus = "finalized" => txs[i].status = "confirmed"

\* a path that holds a value (not undefined, not null)
IsSet(v) == v \notin {UNSET, NULL}

\* C27: confirmedAt is set exactly if status is 'confirmed', and failedAt and
\* errorMessage are set exactly if status is 'failed'.
C27_TimestampsFollowStatus ==
    \A i \in 1..Len(txs) :
        /\ IsSet(txs[i].confirmedAt) <=> txs[i].status = "confirmed"
        /\ txs[i].status = "failed" =>
              (IsSet(txs[i].failedAt) /\ IsSet(txs[i].errorMessage))
        /\ txs[i].status # "failed" =>
              (~IsSet(txs[i].failedAt) /\ ~IsSet(txs[i].errorMessage))

\* the confirmed paper_hash documents of a paper
PaperAnchors(paperId) ==
    {i \in ConfirmedOf("ExamPaper", paperId) : txs[i].type = "paper_hash"}

\* C28: verifyDataIntegrity(paperId, 'ExamPaper', h) answers by the paper_hash
\* documents of the paper alone: true only if one of them holds h, and true if the
\* paper has such documents and all of them hold h.
C28_PaperVerifiedByPaperHash ==
    (/\ ret.op = "verifyDataIntegrity"
     /\ ret.entityType = "ExamPaper"
     /\ ret.dbOk)
        => /\ ret.value = "true" =>
                 \E i \in PaperAnchors(ret.entityId) : txs[i].dataHash = ret.hash
           /\ (/\ PaperAnchors(ret.entityId) # {}
               /\ \A i \in PaperAnchors(ret.entityId) : txs[i].dataHash = ret.hash)
                 => ret.value = "true"

\* the place of a status in the order generated, distributed, decrypted, active,
\* completed, archived
StatusRank(status) == CHOOSE k \in 1..Len(PaperStatuses) : PaperStatuses[k] = status

\* C29: shamirShares never holds more entries than totalShares, and an isUsed flag
\* never goes back from true to false.
C29_SharesWithinTotal ==
    [][/\ Len(paper'.shamirShares) <= paper'.totalShares
       /\ \A i \in 1..Len(paper.shamirShares) :
             paper.shamirShares[i].isUsed => paper'.shamirShares[i].isUsed]_vars

\* C30: the status of a stored paper only moves forward in the order of the enum;
\* activate() makes a paper 'active' only from 'decrypted', and complete() makes a
\* paper 'completed' only from 'active'.
C30_StatusMovesForward ==
    [][paper.persisted =>
          /\ StatusRank(paper'.status) >= StatusRank(paper.status)
          /\ (pret'.op = "activate" /\ paper'.status # paper.status)
                => paper.status = "decrypted"
          /\ (pret'.op = "complete" /\ paper'.status # paper.status)
                => paper.status = "active"]_vars

\* what the last splitSecret call returned
LastSplit == shares[Len(shares)].list

C22_CipherRoundTrip ==
    (/\ cret.op = "decrypt"
     /\ cret.payload = sealed.payload
     /\ cret.key = sealed.key)
        => (~cret.threw /\ cret.value = sealed.data)

\* decrypt returned a non-empty plaintext from the payload of encrypt
C22_Witness ==
    /\ cret.op = "decrypt"
    /\ cret.payload = sealed.payload
    /\ cret.key = sealed.key
    /\ ~cret.threw
    /\ Len(cret.value) = 2

\* C23: decrypt throws, and so returns no plaintext, whenever the ciphertext or the
\* authTag of its payload is not the one encrypt produced, or its key is not the key
\* of that encrypt.
C23_TamperedPayloadFails ==
    (/\ cret.op = "decrypt"
     /\ \/ cret.payload.encrypted # sealed.payload.encrypted
        \/ cret.payload.authTag # sealed.payload.authTag
        \/ cret.key # sealed.key)
        => cret.threw

\* C24: decrypt of a payload whose iv is not the iv of encrypt throws, so that of two
\* decrypt calls that differ in the iv only at most one returns the plaintext.
C24_IvParameterizesCipher ==
    (/\ cret.op = "decrypt"
     /\ cret.payload.iv # sealed.payload.iv)
        => cret.threw

====
